---- MODULE Spec2Model ----
(***************************************************************************)
(* HTTP relay-control server of the Waveshare RP2350-POE-ETH-8DI-8RO       *)
(* (src/c/web_server/main.c): the single-socket polling loop               *)
(* http_server_run, the router process_http_request and the relay store    *)
(* g_relay_states.  Byte strings are sequences of one-character strings.   *)
(***************************************************************************)
EXTENDS Integers, Sequences, FiniteSets, TLC

VARIABLES
    g_relay_states, \* uint8_t g_relay_states[RELAY_COUNT], indexed 1..8 here
    gpio,           \* level last driven on each relay pin (gpio_put)
    Sn_SR,          \* socket status register of the Ethernet chip
    Sn_RX,          \* bytes waiting in the socket's receive buffer
    wire,           \* bytes the peer has sent that have not arrived yet
    status,         \* http_server_run: local status of the last call
    size,           \* http_server_run: local size of the last call
    buffer,         \* http_server_run: C string handed to the router
    nul_at,         \* http_server_run: index written by buffer[size] = 0, or -1
    ops,            \* calls made by the last call of http_server_run, in order
    halted,         \* the control loop no longer runs
    conn            \* what the socket has been through since the last routing

vars == <<g_relay_states, gpio, Sn_SR, Sn_RX, wire, status, size, buffer,
          nul_at, ops, halted, conn>>

(***************************************************************************)
(* Program constants (config.h)                                            *)
(***************************************************************************)
RELAY_COUNT == 8

MAX_HTTP_BUF == 2048

Channels == 1..RELAY_COUNT

(***************************************************************************)
(* Model bounds                                                            *)
(***************************************************************************)
\* how many bytes beyond MAX_HTTP_BUF the longest request of the model has
LongExtra == 40

(***************************************************************************)
(* String literals of the program and of the requests                      *)
(***************************************************************************)
STR_GET == <<"G", "E", "T">>

STR_POST == <<"P", "O", "S", "T">>

URI_ROOT == <<"/">>

URI_INDEX == <<"/", "i", "n", "d", "e", "x", ".", "h", "t", "m", "l">>

URI_RELAYS == <<"/", "a", "p", "i", "/", "r", "e", "l", "a", "y", "s">>

URI_RELAY_PREFIX == <<"/", "a", "p", "i", "/", "r", "e", "l", "a", "y", "/">>

URI_ALL_ON == <<"/", "a", "p", "i", "/", "r", "e", "l", "a", "y", "s", "/", "a", "l", "l", "/", "o", "n">>

URI_ALL_OFF == <<"/", "a", "p", "i", "/", "r", "e", "l", "a", "y", "s", "/", "a", "l", "l", "/", "o", "f", "f">>

CRLFCRLF == <<"\r", "\n", "\r", "\n">>

STATE_1 == <<"\"", "s", "t", "a", "t", "e", "\"", ":", "1">>

STATE_SP_1 == <<"\"", "s", "t", "a", "t", "e", "\"", ":", " ", "1">>

STATE_0 == <<"\"", "s", "t", "a", "t", "e", "\"", ":", "0">>

STATE_SP_0 == <<"\"", "s", "t", "a", "t", "e", "\"", ":", " ", "0">>

STATUS_200 == <<"2", "0", "0", " ", "O", "K">>

STATUS_404 == <<"4", "0", "4", " ", "N", "o", "t", " ", "F", "o", "u", "n", "d">>

CT_HTML == <<"t", "e", "x", "t", "/", "h", "t", "m", "l">>

CT_JSON == <<"a", "p", "p", "l", "i", "c", "a", "t", "i", "o", "n", "/", "j", "s", "o", "n">>

CT_PLAIN == <<"t", "e", "x", "t", "/", "p", "l", "a", "i", "n">>

BODY_NOT_FOUND == <<"N", "o", "t", " ", "F", "o", "u", "n", "d">>

BODY_SUCCESS == <<"{", "\"", "s", "u", "c", "c", "e", "s", "s", "\"", ":", "t", "r", "u", "e", "}">>

HDR_STATUS == <<"H", "T", "T", "P", "/", "1", ".", "1", " ">>

HDR_CTYPE == <<"\r", "\n", "C", "o", "n", "t", "e", "n", "t", "-", "T", "y", "p", "e", ":", " ">>

HDR_CLEN == <<"\r", "\n", "C", "o", "n", "t", "e", "n", "t", "-", "L", "e", "n", "g", "t", "h", ":", " ">>

HDR_CONN == <<"\r", "\n", "C", "o", "n", "n", "e", "c", "t", "i", "o", "n", ":", " ", "c", "l", "o", "s", "e", "\r", "\n", "\r", "\n">>

\* the static page of web_pages.h, which is not part of the sources
HTML_PAGE == <<"<", "h", "t", "m", "l", ">", "r", "e", "l", "a", "y", "s", "<", "/", "h", "t", "m", "l", ">">>

\* pieces of the format string of get_relays_json
JSON_1 == <<"{", "\"", "r", "e", "l", "a", "y", "_", "1", "\"", ":", "{", "\"", "s", "t", "a", "t", "e", "\"", ":">>

JSON_2 == <<"}", ",", "\"", "r", "e", "l", "a", "y", "_", "2", "\"", ":", "{", "\"", "s", "t", "a", "t", "e", "\"", ":">>

JSON_3 == <<"}", ",", "\"", "r", "e", "l", "a", "y", "_", "3", "\"", ":", "{", "\"", "s", "t", "a", "t", "e", "\"", ":">>

JSON_4 == <<"}", ",", "\"", "r", "e", "l", "a", "y", "_", "4", "\"", ":", "{", "\"", "s", "t", "a", "t", "e", "\"", ":">>

JSON_5 == <<"}", ",", "\"", "r", "e", "l", "a", "y", "_", "5", "\"", ":", "{", "\"", "s", "t", "a", "t", "e", "\"", ":">>

JSON_6 == <<"}", ",", "\"", "r", "e", "l", "a", "y", "_", "6", "\"", ":", "{", "\"", "s", "t", "a", "t", "e", "\"", ":">>

JSON_7 == <<"}", ",", "\"", "r", "e", "l", "a", "y", "_", "7", "\"", ":", "{", "\"", "s", "t", "a", "t", "e", "\"", ":">>

JSON_8 == <<"}", ",", "\"", "r", "e", "l", "a", "y", "_", "8", "\"", ":", "{", "\"", "s", "t", "a", "t", "e", "\"", ":">>

JSON_END == <<"}", "}">>

(***************************************************************************)
(* The C library, as far as the program uses it                            *)
(***************************************************************************)
\* the printable ASCII characters, code 32 first
Ascii ==
  <<
    " ", "!", "\"", "#", "$", "%", "&", "'", "(", ")", "*", "+", ",",
    "-", ".", "/", "0", "1", "2", "3", "4", "5", "6", "7", "8", "9",
    ":", ";", "<", "=", ">", "?", "@", "A", "B", "C", "D", "E", "F",
    "G", "H", "I", "J", "K", "L", "M", "N", "O", "P", "Q", "R", "S",
    "T", "U", "V", "W", "X", "Y", "Z", "[", "BACKSLASH", "]", "^", "_", "BACKTICK",
    "a", "b", "c", "d", "e", "f", "g", "h", "i", "j", "k", "l", "m",
    "n", "o", "p", "q", "r", "s", "t", "u", "v", "w", "x", "y", "z",
    "{", "|", "}", "~"
  >>

\* the code of a character; NUL stands for the byte 0 that ends a C string
Ord(c) ==
    IF c = "\t" THEN 9
    ELSE IF c = "\n" THEN 10
    ELSE IF c = "\r" THEN 13
    ELSE IF c = "NUL" THEN 0
    ELSE 31 + (CHOOSE i \in 1..Len(Ascii) : Ascii[i] = c)

Min(a, b) == IF a < b THEN a ELSE b

\* s[from], s[from+1], ... to the end of s
Tail_from(s, from) == SubSeq(s, from, Len(s))

\* isspace() on the characters of the model
isspace(c) == c \in {" ", "\t", "\n", "\r"}

\* first position at or after from that holds no white space, Len(s)+1 if none
skip_space(s, from) ==
    CHOOSE i \in from..(Len(s) + 1) :
        /\ (i = Len(s) + 1 \/ ~isspace(s[i]))
        /\ \A j \in from..(i - 1) : isspace(s[j])

\* first position at or after from that holds white space, Len(s)+1 if none
find_space(s, from) ==
    CHOOSE i \in from..(Len(s) + 1) :
        /\ (i = Len(s) + 1 \/ isspace(s[i]))
        /\ \A j \in from..(i - 1) : ~isspace(s[j])

\* sscanf(request, "%s %s", method, uri): each %s skips white space and takes
\* the characters up to the next white space, with no width limit; a
\* conversion that meets the end of the input leaves its array as it was
\* initialised, all zero
sscanf(request) ==
    LET m0 == skip_space(request, 1)
        m1 == find_space(request, m0)
        u0 == skip_space(request, m1)
        u1 == find_space(request, u0)
    IN  [method |-> IF m0 > Len(request) THEN <<>> ELSE SubSeq(request, m0, m1 - 1),
         uri    |-> IF m0 > Len(request) \/ u0 > Len(request) THEN <<>>
                    ELSE SubSeq(request, u0, u1 - 1)]

\* strcmp(a, b) == 0 on C strings
strcmp0(a, b) == a = b

\* strncmp(a, b, n) == 0 where b has at least n characters
strncmp0(a, b, n) == Len(a) >= n /\ SubSeq(a, 1, n) = SubSeq(b, 1, n)

\* strstr(hay, needle): position of the first occurrence, 0 for NULL
strstr(hay, needle) ==
    LET hit(i) == SubSeq(hay, i, i + Len(needle) - 1) = needle
        last   == Len(hay) - Len(needle) + 1
    IN  IF \E i \in 1..last : hit(i)
        THEN CHOOSE i \in 1..last : hit(i) /\ \A j \in 1..(i - 1) : ~hit(j)
        ELSE 0

\* the character s[i] of a C string, i counted from 0; the terminator at Len(s)
char_at(s, i) == IF i < Len(s) THEN s[i + 1] ELSE "NUL"

\* printf's %d of a number that is not negative
RECURSIVE fmt_d(_)
fmt_d(n) ==
    IF n < 10 THEN <<Ascii[17 + n]>>
    ELSE fmt_d(n \div 10) \o <<Ascii[17 + (n % 10)]>>

\* snprintf's limit: at most bufsize - 1 characters are stored
snprintf_cut(s, bufsize) == SubSeq(s, 1, Min(Len(s), bufsize - 1))

(***************************************************************************)
(* Relay store                                                             *)
(***************************************************************************)
\* a bank is the stored states together with the levels driven on the pins
Bank(states, pins) == [states |-> states, pins |-> pins]

\* relay_init: every pin driven low, every stored state 0
relay_init == Bank([k \in Channels |-> 0], [k \in Channels |-> 0])

\* set_relay that writes the array and leaves the pin alone
set_relay_no_pin(bank, relay_num, state) ==
    LET n     == relay_num % 256
        level == IF (state % 256) # 0 THEN 1 ELSE 0
    IN  IF n >= 1 /\ n <= RELAY_COUNT
        THEN Bank([bank.states EXCEPT ![n] = level], bank.pins)
        ELSE bank

\* set_relay that flips the channel when asked to switch it on
set_relay_toggle(bank, relay_num, state) ==
    LET n     == relay_num % 256
        level == IF (state % 256) # 0 THEN 1 - bank.states[n] ELSE 0
    IN  IF n >= 1 /\ n <= RELAY_COUNT
        THEN Bank([bank.states EXCEPT ![n] = level],
                  [bank.pins EXCEPT ![n] = level])
        ELSE bank

\* set_relay(uint8_t relay_num, uint8_t state)
set_relay(bank, relay_num, state) ==
    LET n     == relay_num % 256
        level == IF (state % 256) # 0 THEN 1 ELSE 0
    IN  IF n >= 1 /\ n <= RELAY_COUNT
        THEN Bank([bank.states EXCEPT ![n] = level],
                  [bank.pins EXCEPT ![n] = level])
        ELSE bank

\* the loop with i < RELAY_COUNT as its test
RECURSIVE set_all_short(_, _, _)
set_all_short(bank, from, state) ==
    IF from < RELAY_COUNT
    THEN set_all_short(set_relay(bank, from, state), from + 1, state)
    ELSE bank

\* for (i = from; i <= RELAY_COUNT; i++) set_relay(i, state);
RECURSIVE set_all(_, _, _)
set_all(bank, from, state) ==
    IF from <= RELAY_COUNT
    THEN set_all(set_relay(bank, from, state), from + 1, state)
    ELSE bank

\* get_relays_json with its first two arguments exchanged
get_relays_json_swapped(states, bufsize) ==
    snprintf_cut(
        JSON_1 \o fmt_d(states[2]) \o JSON_2 \o fmt_d(states[1]) \o
        JSON_3 \o fmt_d(states[3]) \o JSON_4 \o fmt_d(states[4]) \o
        JSON_5 \o fmt_d(states[5]) \o JSON_6 \o fmt_d(states[6]) \o
        JSON_7 \o fmt_d(states[7]) \o JSON_8 \o fmt_d(states[8]) \o JSON_END,
        bufsize)

\* get_relays_json(buffer, bufsize)
get_relays_json(states, bufsize) ==
    snprintf_cut(
        JSON_1 \o fmt_d(states[1]) \o JSON_2 \o fmt_d(states[2]) \o
        JSON_3 \o fmt_d(states[3]) \o JSON_4 \o fmt_d(states[4]) \o
        JSON_5 \o fmt_d(states[5]) \o JSON_6 \o fmt_d(states[6]) \o
        JSON_7 \o fmt_d(states[7]) \o JSON_8 \o fmt_d(states[8]) \o JSON_END,
        bufsize)

(***************************************************************************)
(* Calls the program makes, as the model records them                      *)
(***************************************************************************)
Op(name, data) == [op |-> name, data |-> data]

\* send_http_response: the header, then the body, each with one send()
send_http_response(http_status, content_type, body) ==
    LET header == snprintf_cut(
                      HDR_STATUS \o http_status \o HDR_CTYPE \o content_type \o
                      HDR_CLEN \o fmt_d(Len(body)) \o HDR_CONN, 256)
    IN  <<Op("send", header), Op("send", body)>>

(***************************************************************************)
(* Router                                                                  *)
(***************************************************************************)
\* body_state that takes a body with none of the four substrings for ON
body_state_default_on(body) ==
    IF strstr(body, STATE_1) # 0 \/ strstr(body, STATE_SP_1) # 0 THEN 1
    ELSE IF strstr(body, STATE_0) # 0 \/ strstr(body, STATE_SP_0) # 0 THEN 0
    ELSE 1

\* body_state with the spaced ON variant left out
body_state_unspaced(body) ==
    IF strstr(body, STATE_1) # 0 THEN 1
    ELSE IF strstr(body, STATE_0) # 0 \/ strstr(body, STATE_SP_0) # 0 THEN 0
    ELSE 0

\* the state a POST /api/relay/<n> body asks for
body_state(body) ==
    IF strstr(body, STATE_1) # 0 \/ strstr(body, STATE_SP_1) # 0 THEN 1
    ELSE IF strstr(body, STATE_0) # 0 \/ strstr(body, STATE_SP_0) # 0 THEN 0
    ELSE 0

\* int relay_num = uri[11] - '0';
relay_num_of(uri) == Ord(char_at(uri, 11)) - Ord("0")

\* what a routed request leaves: the bank, and the sends made, in order
Routed(bank, sends) == [bank |-> bank, sends |-> sends]

\* the branch of POST /api/relay/<n> with a missing blank line read as an
\* empty body
relay_route_no_check(bank, uri, request) ==
    LET term == strstr(request, CRLFCRLF)
        body == IF term # 0 THEN Tail_from(request, term + 4) ELSE <<>>
    IN  Routed(set_relay(bank, relay_num_of(uri), body_state(body)),
               send_http_response(STATUS_200, CT_JSON, BODY_SUCCESS))

\* process_http_request, the branch of POST /api/relay/<n>
relay_route(bank, uri, request) ==
    LET term == strstr(request, CRLFCRLF)
    IN  IF term # 0
        THEN Routed(set_relay(bank, relay_num_of(uri),
                              body_state(Tail_from(request, term + 4))),
                    send_http_response(STATUS_200, CT_JSON, BODY_SUCCESS))
        ELSE Routed(bank, <<>>)

\* the routes of GET with all/on served without a look at the method
get_route_all_on(bank, uri) ==
    IF strcmp0(uri, URI_ROOT) \/ strcmp0(uri, URI_INDEX) THEN
        Routed(bank, send_http_response(STATUS_200, CT_HTML, HTML_PAGE))
    ELSE IF strcmp0(uri, URI_RELAYS) THEN
        Routed(bank, send_http_response(STATUS_200, CT_JSON,
                                        get_relays_json(bank.states, 512)))
    ELSE IF strcmp0(uri, URI_ALL_ON) THEN
        Routed(set_all(bank, 1, 1),
               send_http_response(STATUS_200, CT_JSON, BODY_SUCCESS))
    ELSE
        Routed(bank, send_http_response(STATUS_404, CT_PLAIN, BODY_NOT_FOUND))

\* process_http_request, the routes of GET
get_route(bank, uri) ==
    IF strcmp0(uri, URI_ROOT) \/ strcmp0(uri, URI_INDEX) THEN
        Routed(bank, send_http_response(STATUS_200, CT_HTML, HTML_PAGE))
    ELSE IF strcmp0(uri, URI_RELAYS) THEN
        Routed(bank, send_http_response(STATUS_200, CT_JSON,
                                        get_relays_json(bank.states, 512)))
    ELSE
        Routed(bank, send_http_response(STATUS_404, CT_PLAIN, BODY_NOT_FOUND))

\* process_http_request, the routes of POST
post_route(bank, uri, request) ==
    IF strncmp0(uri, URI_RELAY_PREFIX, 11) THEN
        relay_route(bank, uri, request)
    ELSE IF strcmp0(uri, URI_ALL_ON) THEN
        Routed(set_all(bank, 1, 1),
               send_http_response(STATUS_200, CT_JSON, BODY_SUCCESS))
    ELSE IF strcmp0(uri, URI_ALL_OFF) THEN
        Routed(set_all(bank, 1, 0),
               send_http_response(STATUS_200, CT_JSON, BODY_SUCCESS))
    ELSE
        Routed(bank, send_http_response(STATUS_404, CT_PLAIN, BODY_NOT_FOUND))

\* process_http_request(sock, request, len): a method that is neither GET
\* nor POST falls through both branches
process_http_request(bank, request) ==
    LET line == sscanf(request)
    IN  IF strcmp0(line.method, STR_GET) THEN get_route(bank, line.uri)
        ELSE IF strcmp0(line.method, STR_POST) THEN post_route(bank, line.uri, request)
        ELSE Routed(bank, <<>>)

\* the calls with disconnect left out when the router sent nothing
established_calls_keep_open(request, sends) ==
    <<Op("recv", request), Op("process_http_request", request)>>
        \o sends \o (IF sends = <<>> THEN <<>> ELSE <<Op("disconnect", <<>>)>>)

\* the calls with disconnect made before the router runs
established_calls_close_first(request, sends) ==
    <<Op("recv", request), Op("disconnect", <<>>),
      Op("process_http_request", request)>> \o sends

\* http_server_run, case SOCK_ESTABLISHED with data: the calls it makes, in
\* order, where sends are the sends process_http_request makes
established_calls(request, sends) ==
    <<Op("recv", request), Op("process_http_request", request)>>
        \o sends \o <<Op("disconnect", <<>>)>>

(***************************************************************************)
(* Transport: the socket of the Ethernet chip and the peer                 *)
(***************************************************************************)
SOCK_CLOSED == "SOCK_CLOSED"

SOCK_INIT == "SOCK_INIT"

SOCK_LISTEN == "SOCK_LISTEN"

SOCK_ESTABLISHED == "SOCK_ESTABLISHED"

SOCK_CLOSE_WAIT == "SOCK_CLOSE_WAIT"

SOCK_FIN_WAIT == "SOCK_FIN_WAIT"

SOCK_LAST_ACK == "SOCK_LAST_ACK"

\* the status before the first call of http_server_run
NO_STATUS == "NO_STATUS"

\* disconnect(sock): the statuses the socket can show when the call returns
disconnect_result(sr) ==
    IF sr = SOCK_CLOSE_WAIT THEN {SOCK_CLOSED, SOCK_LAST_ACK}
    ELSE {SOCK_CLOSED, SOCK_FIN_WAIT}

(***************************************************************************)
(* The requests a peer sends                                               *)
(***************************************************************************)
STR_PUT == <<"P", "U", "T">>

STR_DELETE == <<"D", "E", "L", "E", "T", "E">>

URI_FOO == <<"/", "f", "o", "o">>

URI_RELAY_NOSLASH == <<"/", "a", "p", "i", "/", "r", "e", "l", "a", "y">>

HTTP_VERSION == <<" ", "H", "T", "T", "P", "/", "1", ".", "1", "\r", "\n">>

HDR_JSON == <<"C", "o", "n", "t", "e", "n", "t", "-", "T", "y", "p", "e", ":", " ", "a", "p", "p", "l", "i", "c", "a", "t", "i", "o", "n", "/", "j", "s", "o", "n", "\r", "\n">>

SP == <<" ">>

CRLF == <<"\r", "\n">>

BODY_ON == <<"{">> \o STATE_1 \o <<"}">>

BODY_ON_SP == <<"{">> \o STATE_SP_1 \o <<"}">>

BODY_OFF == <<"{">> \o STATE_0 \o <<"}">>

BODY_OFF_SP == <<"{">> \o STATE_SP_0 \o <<"}">>

BODY_BOTH == <<"{">> \o STATE_0 \o <<",">> \o STATE_SP_1 \o <<"}">>

BODY_OTHER == <<"{", "\"", "s", "t", "a", "t", "e", "\"", ":", "2", "}">>

BODY_EMPTY == <<>>

\* a request with its blank line: request line, headers, blank line, body
Request(method, uri, headers, body) ==
    method \o SP \o uri \o HTTP_VERSION \o headers \o CRLF \o body

\* a request whose lines end in a bare line feed: it holds no \r\n\r\n
RequestLF(method, uri, body) ==
    method \o SP \o uri \o <<" ", "H", "T", "T", "P", "/", "1", ".", "1", "\n", "\n">> \o body

\* a request of exactly total bytes, filled up by one long header
LongRequest(method, uri, body, total) ==
    LET name == <<"X", ":", " ">>
        rest == Len(Request(method, uri, name \o CRLF, body))
    IN  Request(method, uri, name \o [i \in 1..(total - rest) |-> "a"] \o CRLF, body)

\* the relay /api/relay/<suffix>
RelayUri(suffix) == URI_RELAY_PREFIX \o suffix

ChannelDigit(n) == <<Ascii[17 + n]>>

\* suffixes that name no channel of 1..8
BadSuffixes == {<<"0">>, <<"9">>, <<"x">>, <<>>, <<"1", "0">>, <<"1", "2">>}

SwitchBodies == {BODY_ON, BODY_ON_SP, BODY_OFF, BODY_OFF_SP}

OddBodies == {BODY_EMPTY, BODY_OTHER, BODY_BOTH}

LongTotals == {MAX_HTTP_BUF - 1, MAX_HTTP_BUF, MAX_HTTP_BUF + LongExtra}

Requests ==
    {Request(STR_POST, RelayUri(ChannelDigit(n)), HDR_JSON, b) :
        n \in Channels, b \in SwitchBodies}
    \cup {Request(STR_POST, RelayUri(ChannelDigit(n)), HDR_JSON, BODY_EMPTY) : n \in Channels}
    \cup {RequestLF(STR_POST, RelayUri(ChannelDigit(n)), BODY_ON) : n \in Channels}
    \cup {Request(STR_POST, RelayUri(s), HDR_JSON, b) :
            s \in BadSuffixes, b \in {BODY_ON, BODY_OFF}}
    \cup {Request(STR_POST, RelayUri(<<"3">>), <<>>, b) : b \in OddBodies}
    \cup {Request(STR_POST, u, <<>>, <<>>) :
            u \in {URI_ALL_ON, URI_ALL_OFF, URI_FOO, URI_RELAYS, URI_RELAY_NOSLASH}}
    \cup {Request(STR_GET, u, <<>>, <<>>) :
            u \in {URI_ROOT, URI_INDEX, URI_RELAYS, URI_FOO, URI_ALL_ON,
                   RelayUri(<<"3">>)}}
    \cup {Request(m, u, HDR_JSON, BODY_ON) :
            m \in {STR_PUT, STR_DELETE}, u \in {URI_RELAYS, RelayUri(<<"3">>)}}
    \cup {STR_GET, CRLFCRLF, <<"g", "e", "t">> \o SP \o URI_ROOT \o CRLFCRLF}
    \cup {LongRequest(STR_GET, URI_RELAYS, <<>>, t) : t \in LongTotals}
    \cup {LongRequest(STR_POST, RelayUri(<<"3">>), BODY_ON, t) : t \in LongTotals}
    \cup {LongRequest(STR_POST, URI_ALL_ON, BODY_ON, MAX_HTTP_BUF + LongExtra)}

\* a few of them: switching two channels, reading the bank, an unknown
\* path, and requests that fill the receive buffer of http_server_run
FewRequests ==
    {Request(STR_POST, RelayUri(ChannelDigit(n)), HDR_JSON, b) :
        n \in {3, 8}, b \in {BODY_ON, BODY_OFF}}
    \cup {Request(STR_GET, u, <<>>, <<>>) : u \in {URI_RELAYS, URI_FOO}}
    \cup {LongRequest(STR_GET, URI_RELAYS, <<>>, t) :
            t \in {MAX_HTTP_BUF - 1, MAX_HTTP_BUF}}

\* char method[16] and char uri[128] of process_http_request
METHOD_SIZE == 16

URI_SIZE == 128

\* how far past the size of its array a token of the model may reach
TokenExtra == 3

\* a token of n characters that begins with head
Padded(head, n) == head \o [i \in 1..(n - Len(head)) |-> "A"]

\* requests whose method or target is as long as its array or longer, and
\* ones that just fit
TokenRequests ==
    {Request(Padded(STR_GET, m), URI_RELAYS, <<>>, <<>>) :
        m \in {METHOD_SIZE - 1, METHOD_SIZE, METHOD_SIZE + TokenExtra}}
    \cup {Request(STR_GET, Padded(URI_ROOT, u), <<>>, <<>>) :
            u \in {URI_SIZE - 1, URI_SIZE, URI_SIZE + TokenExtra}}
    \cup {Request(STR_POST, Padded(RelayUri(<<"3">>), u), HDR_JSON, BODY_ON) :
            u \in {URI_SIZE - 1, URI_SIZE + TokenExtra}}

\* the requests that may also arrive in two segments
Segmented ==
    {Request(STR_POST, RelayUri(ChannelDigit(n)), HDR_JSON, BODY_ON) : n \in Channels}

\* how much of a request can arrive before the rest: all of it, or, for a
\* segmented one, the part up to and including its blank line
Cuts(req) ==
    {Len(req)} \cup (IF req \in Segmented THEN {strstr(req, CRLFCRLF) + 3} ELSE {})

(***************************************************************************)
(* State machine                                                           *)
(***************************************************************************)
\* conn: socket() has opened the socket and nothing was routed since
CONN_REOPENED == "reopened"
\* conn: listen() was called on the reopened socket, nothing routed since
CONN_ARMED == "armed"
\* conn: process_http_request was called and the socket not reopened since
CONN_ROUTED == "routed"

\* main(): relay_init(), then socket(HTTP_SOCKET, Sn_MR_TCP, HTTP_PORT, 0)
Init ==
    /\ g_relay_states = relay_init.states
    /\ gpio = relay_init.pins
    /\ Sn_SR = SOCK_INIT
    /\ Sn_RX = <<>>
    /\ wire = <<>>
    /\ status = NO_STATUS
    /\ size = 0
    /\ buffer = <<>>
    /\ nul_at = -1
    /\ ops = <<>>
    /\ halted = FALSE
    /\ conn = CONN_REOPENED

\* status, size, buffer, nul_at and ops describe the call of http_server_run
\* that has just returned; its frame is gone once the transport moves on
Returned ==
    /\ status' = NO_STATUS
    /\ size' = 0
    /\ buffer' = <<>>
    /\ nul_at' = -1
    /\ ops' = <<>>

\* an idle call that closes the socket all the same
Idle_disconnect(sr, sz) ==
    /\ status' = sr
    /\ size' = sz
    /\ buffer' = <<>>
    /\ nul_at' = -1
    /\ ops' = <<Op("disconnect", <<>>)>>
    /\ UNCHANGED <<g_relay_states, gpio, Sn_SR, Sn_RX, wire, halted, conn>>

\* a call of http_server_run that touches neither the socket nor the relays
Idle(sr, sz) ==
    /\ status' = sr
    /\ size' = sz
    /\ buffer' = <<>>
    /\ nul_at' = -1
    /\ ops' = <<>>
    /\ UNCHANGED <<g_relay_states, gpio, Sn_SR, Sn_RX, wire, halted, conn>>

\* case SOCK_ESTABLISHED without the disconnect: the connection stays open
RunEstablished_keep_alive ==
    /\ ~halted
    /\ Sn_SR = SOCK_ESTABLISHED
    /\ LET avail == Len(Sn_RX) % 65536
       IN  IF avail > 0 THEN
               LET sz  == IF avail > MAX_HTTP_BUF THEN MAX_HTTP_BUF ELSE avail
                   req == SubSeq(Sn_RX, 1, sz)
                   r   == process_http_request(Bank(g_relay_states, gpio), req)
               IN  /\ status' = SOCK_ESTABLISHED
                   /\ size' = sz
                   /\ buffer' = req
                   /\ nul_at' = sz
                   /\ g_relay_states' = r.bank.states
                   /\ gpio' = r.bank.pins
                   /\ ops' = <<Op("recv", req), Op("process_http_request", req)>>
                                 \o r.sends
                   /\ Sn_RX' = SubSeq(Sn_RX, sz + 1, Len(Sn_RX))
                   /\ halted' \in (IF sz >= MAX_HTTP_BUF THEN BOOLEAN ELSE {FALSE})
                   /\ conn' = CONN_ROUTED
                   /\ UNCHANGED <<Sn_SR, wire>>
           ELSE Idle(SOCK_ESTABLISHED, avail)

\* http_server_run, case SOCK_ESTABLISHED
RunEstablished ==
    /\ ~halted
    /\ Sn_SR = SOCK_ESTABLISHED
    /\ LET avail == Len(Sn_RX) % 65536
       IN  IF avail > 0 THEN
               LET sz  == IF avail > MAX_HTTP_BUF THEN MAX_HTTP_BUF ELSE avail
                   req == SubSeq(Sn_RX, 1, sz)
                   r   == process_http_request(Bank(g_relay_states, gpio), req)
               IN  /\ status' = SOCK_ESTABLISHED
                   /\ size' = sz
                   /\ buffer' = req
                   /\ nul_at' = sz
                   /\ g_relay_states' = r.bank.states
                   /\ gpio' = r.bank.pins
                   /\ ops' = established_calls(req, r.sends)
                   /\ Sn_SR' \in disconnect_result(Sn_SR)
                   /\ Sn_RX' = <<>>
                   /\ wire' = <<>>
                   \* buffer[MAX_HTTP_BUF] lies outside the array: the write may
                   \* pass unnoticed or bring the loop down once the call returns
                   /\ halted' \in (IF sz >= MAX_HTTP_BUF THEN BOOLEAN ELSE {FALSE})
                   /\ conn' = CONN_ROUTED
           ELSE Idle(SOCK_ESTABLISHED, avail)

\* sscanf(request, "%s %s", method, uri) stores each token and a NUL after
\* it: the number of bytes it writes into method and into uri
token_bytes(request) ==
    LET t == sscanf(request)
    IN  [method |-> IF t.method = <<>> THEN 0 ELSE Len(t.method) + 1,
         uri    |-> IF t.uri = <<>> THEN 0 ELSE Len(t.uri) + 1]

\* the tokens of the request do not fit method[16] and uri[128]
TokensOverflow(request) ==
    \/ token_bytes(request).method > METHOD_SIZE
    \/ token_bytes(request).uri > URI_SIZE

\* http_server_run, case SOCK_ESTABLISHED, when sscanf has written past
\* method or uri and the frame of process_http_request is spoilt: the call
\* does not come back, nothing is sent and the socket is left as it is.
\* (RunEstablished is the other outcome: the bytes past the arrays hit
\* nothing that is used, and the call goes on with the whole tokens.)
RunEstablishedSmashed ==
    /\ ~halted
    /\ Sn_SR = SOCK_ESTABLISHED
    /\ Len(Sn_RX) % 65536 > 0
    /\ LET avail == Len(Sn_RX) % 65536
           sz    == IF avail > MAX_HTTP_BUF THEN MAX_HTTP_BUF ELSE avail
           req   == SubSeq(Sn_RX, 1, sz)
       IN  /\ TokensOverflow(req)
           /\ status' = SOCK_ESTABLISHED
           /\ size' = sz
           /\ buffer' = req
           /\ nul_at' = sz
           /\ ops' = <<Op("recv", req), Op("process_http_request", req)>>
           /\ Sn_RX' = SubSeq(Sn_RX, sz + 1, Len(Sn_RX))
           /\ halted' = TRUE
           /\ conn' = CONN_ROUTED
           /\ UNCHANGED <<g_relay_states, gpio, Sn_SR, wire>>

\* the C string that starts at buffer when recv has stored only the bytes
\* received and the rest of the array still holds what an earlier call
\* left there (its request, then its NUL), with the NUL of this call at
\* index size
c_string(received, stale, sz) ==
    received \o SubSeq(stale, Len(received) + 1, Min(sz, Len(stale)))

\* http_server_run, case SOCK_ESTABLISHED, when recv returns an error or
\* fewer than size bytes: its result is not looked at, and the router is
\* handed buffer all the same. uint8_t buffer[MAX_HTTP_BUF] is not
\* initialised; what it holds beyond the bytes received is any of the
\* requests an earlier call may have left in that place.
RunEstablishedShortRecv ==
    /\ ~halted
    /\ Sn_SR = SOCK_ESTABLISHED
    /\ Len(Sn_RX) % 65536 > 0
    /\ LET avail == Len(Sn_RX) % 65536
           sz    == IF avail > MAX_HTTP_BUF THEN MAX_HTTP_BUF ELSE avail
       IN  \E got \in {0, sz \div 2} : \E stale \in FewRequests :
               LET received == SubSeq(Sn_RX, 1, got)
                   req      == c_string(received, stale, sz)
                   r        == process_http_request(Bank(g_relay_states, gpio), req)
               IN  /\ Len(stale) >= got
                   /\ status' = SOCK_ESTABLISHED
                   /\ size' = sz
                   /\ buffer' = req
                   /\ nul_at' = sz
                   /\ g_relay_states' = r.bank.states
                   /\ gpio' = r.bank.pins
                   /\ ops' = <<Op("recv", received), Op("process_http_request", req)>>
                                 \o r.sends \o <<Op("disconnect", <<>>)>>
                   /\ Sn_SR' \in disconnect_result(Sn_SR) \cup {SOCK_CLOSED}
                   /\ Sn_RX' = <<>>
                   /\ wire' = <<>>
                   /\ halted' \in (IF sz >= MAX_HTTP_BUF THEN BOOLEAN ELSE {FALSE})
                   /\ conn' = CONN_ROUTED

\* http_server_run, case SOCK_CLOSE_WAIT
RunCloseWait ==
    /\ ~halted
    /\ Sn_SR = SOCK_CLOSE_WAIT
    /\ status' = SOCK_CLOSE_WAIT
    /\ size' = 0
    /\ buffer' = <<>>
    /\ nul_at' = -1
    /\ ops' = <<Op("disconnect", <<>>)>>
    /\ Sn_SR' \in disconnect_result(Sn_SR)
    /\ Sn_RX' = <<>>
    /\ wire' = <<>>
    /\ UNCHANGED <<g_relay_states, gpio, halted, conn>>

\* http_server_run, case SOCK_INIT
RunInit ==
    /\ ~halted
    /\ Sn_SR = SOCK_INIT
    /\ status' = SOCK_INIT
    /\ size' = 0
    /\ buffer' = <<>>
    /\ nul_at' = -1
    /\ ops' = <<Op("listen", <<>>)>>
    /\ Sn_SR' = SOCK_LISTEN
    /\ conn' = (IF conn = CONN_REOPENED THEN CONN_ARMED ELSE conn)
    /\ UNCHANGED <<g_relay_states, gpio, Sn_RX, wire, halted>>

\* http_server_run, case SOCK_CLOSED
RunClosed ==
    /\ ~halted
    /\ Sn_SR = SOCK_CLOSED
    /\ status' = SOCK_CLOSED
    /\ size' = 0
    /\ buffer' = <<>>
    /\ nul_at' = -1
    /\ ops' = <<Op("socket", <<>>)>>
    /\ Sn_SR' = SOCK_INIT
    /\ Sn_RX' = <<>>
    /\ conn' = (IF conn = CONN_ROUTED THEN CONN_REOPENED ELSE conn)
    /\ UNCHANGED <<g_relay_states, gpio, wire, halted>>

\* http_server_run, default
RunDefault ==
    /\ ~halted
    /\ Sn_SR \notin {SOCK_ESTABLISHED, SOCK_CLOSE_WAIT, SOCK_INIT, SOCK_CLOSED}
    /\ Idle(Sn_SR, 0)

\* one pass of the loop of main(): http_server_run(HTTP_SOCKET)
http_server_run ==
    RunEstablished \/ RunCloseWait \/ RunInit \/ RunClosed \/ RunDefault

\* a peer completes the handshake with the listening socket
PeerConnect ==
    /\ Sn_SR = SOCK_LISTEN
    /\ Sn_SR' = SOCK_ESTABLISHED
    /\ Returned
    /\ UNCHANGED <<g_relay_states, gpio, Sn_RX, wire, halted, conn>>

\* the connected peer sends one of reqs; its first segment arrives at once
Send(reqs) ==
    /\ Sn_SR = SOCK_ESTABLISHED
    /\ Sn_RX = <<>>
    /\ wire = <<>>
    /\ \E req \in reqs : \E cut \in Cuts(req) :
        /\ Sn_RX' = SubSeq(req, 1, cut)
        /\ wire' = SubSeq(req, cut + 1, Len(req))
    /\ Returned
    /\ UNCHANGED <<g_relay_states, gpio, Sn_SR, halted, conn>>

\* the connected peer sends a request
PeerSend == Send(Requests)

\* the connected peer sends one of a few requests
PeerSendFew == Send(FewRequests)

\* the connected peer sends a request with long tokens, or one of the few
PeerSendTokens == Send(TokenRequests \cup FewRequests)

\* the rest of the request arrives
Arrive ==
    /\ Sn_SR = SOCK_ESTABLISHED
    /\ wire # <<>>
    /\ Sn_RX' = Sn_RX \o wire
    /\ wire' = <<>>
    /\ Returned
    /\ UNCHANGED <<g_relay_states, gpio, Sn_SR, halted, conn>>

\* the peer closes its side once all it sent has arrived
PeerClose ==
    /\ Sn_SR = SOCK_ESTABLISHED
    /\ wire = <<>>
    /\ Sn_SR' = SOCK_CLOSE_WAIT
    /\ Returned
    /\ UNCHANGED <<g_relay_states, gpio, Sn_RX, wire, halted, conn>>

\* the closing handshake started by disconnect() ends
CloseComplete ==
    /\ Sn_SR \in {SOCK_FIN_WAIT, SOCK_LAST_ACK}
    /\ Sn_SR' = SOCK_CLOSED
    /\ Returned
    /\ UNCHANGED <<g_relay_states, gpio, Sn_RX, wire, halted, conn>>

\* a transport fault: the connection is lost and the socket shows CLOSED
SocketFault ==
    /\ Sn_SR \in {SOCK_ESTABLISHED, SOCK_CLOSE_WAIT}
    /\ Sn_SR' = SOCK_CLOSED
    /\ Sn_RX' = <<>>
    /\ wire' = <<>>
    /\ Returned
    /\ UNCHANGED <<g_relay_states, gpio, halted, conn>>

Next ==
    \/ RunEstablished
    \/ RunCloseWait
    \/ RunInit
    \/ RunClosed
    \/ RunDefault
    \/ PeerConnect
    \/ PeerSend
    \/ Arrive
    \/ PeerClose
    \/ CloseComplete
    \/ SocketFault

Spec == Init /\ [][Next]_vars

\* main() calls http_server_run for ever (while (1)), so a call that can be
\* made is made; a closing handshake that was started comes to its end
NextFew ==
    \/ RunEstablished
    \/ RunCloseWait
    \/ RunInit
    \/ RunClosed
    \/ RunDefault
    \/ PeerConnect
    \/ PeerSendFew
    \/ Arrive
    \/ PeerClose
    \/ CloseComplete
    \/ SocketFault

NextTokens ==
    \/ RunEstablished
    \/ RunEstablishedSmashed
    \/ RunCloseWait
    \/ RunInit
    \/ RunClosed
    \/ RunDefault
    \/ PeerConnect
    \/ PeerSendTokens
    \/ Arrive
    \/ PeerClose
    \/ CloseComplete
    \/ SocketFault

\* the program when the peer may send tokens of any length
SpecTokens == Init /\ [][NextTokens]_vars

NextRecv ==
    \/ RunEstablished
    \/ RunEstablishedShortRecv
    \/ RunCloseWait
    \/ RunInit
    \/ RunClosed
    \/ RunDefault
    \/ PeerConnect
    \/ PeerSendFew
    \/ Arrive
    \/ PeerClose
    \/ CloseComplete
    \/ SocketFault

\* the program on a transport whose recv may fail or come back short
SpecRecv == Init /\ [][NextRecv]_vars

FairSpec ==
    Init /\ [][NextFew]_vars /\ WF_vars(http_server_run) /\ WF_vars(CloseComplete)

(***************************************************************************)
(* Vocabulary of the properties                                            *)
(***************************************************************************)
\* the last call of http_server_run read a request and routed it
Handled == status = SOCK_ESTABLISHED /\ size > 0

MethodOf(req) == sscanf(req).method

UriOf(req) == sscanf(req).uri

StartsWith(s, p) == Len(s) >= Len(p) /\ SubSeq(s, 1, Len(p)) = p

\* the request line names this method and this target
RequestLineIs(req, method, uri) == StartsWith(req, method \o SP \o uri \o SP)

Contains(s, sub) == \E i \in 1..(Len(s) - Len(sub) + 1) : SubSeq(s, i, i + Len(sub) - 1) = sub

HasBlankLine(req) == Contains(req, CRLFCRLF)

\* the bytes after the first blank line of a request that has one
BodyOf(req) ==
    LET at(i) == SubSeq(req, i, i + 3) = CRLFCRLF
        first == CHOOSE i \in 1..Len(req) : at(i) /\ \A j \in 1..(i - 1) : ~at(j)
    IN  Tail_from(req, first + 4)

AsksOn(body) == Contains(body, STATE_1) \/ Contains(body, STATE_SP_1)

AsksOff(body) == Contains(body, STATE_0) \/ Contains(body, STATE_SP_0)

IsSend(o) == o.op = "send"

\* the sends of the last call of http_server_run, in order
Sends == SelectSeq(ops, IsSend)

\* sends that make up exactly one response of the given status, type and body
IsResponse(sends, http_status, content_type, body) ==
    /\ Len(sends) = 2
    /\ StartsWith(sends[1].data, HDR_STATUS \o http_status \o CRLF)
    /\ Contains(sends[1].data, HDR_CTYPE \o content_type \o CRLF)
    /\ sends[2].data = body

IsSuccess(sends) == IsResponse(sends, STATUS_200, CT_JSON, BODY_SUCCESS)

IsNotFound(sends) == IsResponse(sends, STATUS_404, CT_PLAIN, BODY_NOT_FOUND)

\* the five routes of the routing table
MatchesRoute(method, uri) ==
    \/ method = STR_GET /\ uri \in {URI_ROOT, URI_INDEX, URI_RELAYS}
    \/ method = STR_POST /\ uri \in {URI_ALL_ON, URI_ALL_OFF}
    \/ method = STR_POST /\ StartsWith(uri, URI_RELAY_PREFIX)

AllOn == [k \in Channels |-> 1]

AllOff == [k \in Channels |-> 0]

\* "relay_k":{"state":v}
RelayEntry(k, v) ==
    <<"\"", "r", "e", "l", "a", "y", "_">> \o ChannelDigit(k) \o <<"\"", ":", "{">>
        \o <<"\"", "s", "t", "a", "t", "e", "\"", ":">> \o ChannelDigit(v) \o <<"}">>

\* the entries of channels k..8, separated by commas
RECURSIVE RelayEntries(_, _)
RelayEntries(states, k) ==
    IF k = RELAY_COUNT THEN RelayEntry(k, states[k])
    ELSE RelayEntry(k, states[k]) \o <<",">> \o RelayEntries(states, k + 1)

\* the JSON object that lists the eight channels in order
JsonOf(states) == <<"{">> \o RelayEntries(states, 1) \o <<"}">>

(***************************************************************************)
(* Properties                                                              *)
(***************************************************************************)
\* C1: a routed POST /api/relay/n, n in 1..8, that has its blank line and
\* whose body contains "state":1 or "state": 1 leaves channel n ON and the
\* other channels as they were; with "state":0 or "state": 0 and neither ON
\* variant it leaves channel n OFF and the other channels as they were.
C1_SwitchesNamedChannel ==
    [][\A n \in Channels :
        (/\ Handled'
         /\ RequestLineIs(buffer', STR_POST, RelayUri(ChannelDigit(n)))
         /\ HasBlankLine(buffer'))
        => LET on  == AsksOn(BodyOf(buffer'))
               off == AsksOff(BodyOf(buffer'))
           IN  /\ on => g_relay_states' = [g_relay_states EXCEPT ![n] = 1]
               /\ (~on /\ off)
                    => g_relay_states' = [g_relay_states EXCEPT ![n] = 0]]_vars

\* C1 witness: POST /api/relay/3 with "state": 1 was routed; channel 3 is ON
\* beside channel 5, which was ON before, and channel 1, which was not.
C1_Witness ==
    /\ Handled
    /\ RequestLineIs(buffer, STR_POST, RelayUri(<<"3">>))
    /\ HasBlankLine(buffer)
    /\ Contains(BodyOf(buffer), STATE_SP_1)
    /\ g_relay_states[3] = 1
    /\ g_relay_states[5] = 1
    /\ g_relay_states[1] = 0

\* C2: every routed request whose method and path match none of the five
\* routes is answered with exactly one response: 404, text/plain, Not Found.
C2_UnmatchedGets404 ==
    (Handled /\ ~MatchesRoute(MethodOf(buffer), UriOf(buffer))) => IsNotFound(Sends)

\* C3: the body returned for GET /api/relays lists relay_1..relay_8 in order,
\* each with the state stored for it at the moment of the GET.
C3_GetReflectsBank ==
    [][(/\ Handled'
        /\ MethodOf(buffer') = STR_GET
        /\ UriOf(buffer') = URI_RELAYS)
       => /\ IsResponse(Sends', STATUS_200, CT_JSON, JsonOf(g_relay_states))
          /\ g_relay_states' = g_relay_states]_vars

\* C3 witness: GET /api/relays was routed while relay 1 alone was ON, and the
\* body sent says so.
C3_Witness ==
    /\ Handled
    /\ MethodOf(buffer) = STR_GET
    /\ UriOf(buffer) = URI_RELAYS
    /\ g_relay_states = [AllOff EXCEPT ![1] = 1]
    /\ Len(Sends) = 2
    /\ Sends[2].data = JsonOf([AllOff EXCEPT ![1] = 1])

\* C4: POST /api/relays/all/on leaves all channels ON and POST
\* /api/relays/all/off all OFF, each answered 200 {"success":true}; nothing
\* but a routed request changes the bank after that, and a GET /api/relays
\* routed on that bank reports state 1 (state 0) for all eight entries.
C4_AllOnAllOff ==
    [][/\ (Handled' /\ MethodOf(buffer') = STR_POST /\ UriOf(buffer') = URI_ALL_ON)
            => (g_relay_states' = AllOn /\ IsSuccess(Sends'))
       /\ (Handled' /\ MethodOf(buffer') = STR_POST /\ UriOf(buffer') = URI_ALL_OFF)
            => (g_relay_states' = AllOff /\ IsSuccess(Sends'))
       /\ ~Handled' => g_relay_states' = g_relay_states
       /\ \A d \in {0, 1} :
            (/\ Handled'
             /\ MethodOf(buffer') = STR_GET
             /\ UriOf(buffer') = URI_RELAYS
             /\ g_relay_states = [k \in Channels |-> d])
            => (/\ Len(Sends') = 2
                /\ \A k \in Channels : Contains(Sends'[2].data, RelayEntry(k, d))
                /\ \A k \in Channels : ~Contains(Sends'[2].data, RelayEntry(k, 1 - d)))]_vars

\* C4 witness: POST /api/relays/all/on was routed and answered with success,
\* and all eight channels are ON.
C4_Witness ==
    /\ Handled
    /\ MethodOf(buffer) = STR_POST
    /\ UriOf(buffer) = URI_ALL_ON
    /\ g_relay_states = AllOn
    /\ IsSuccess(Sends)

\* C5: a routed GET, a request answered 404 and a request that matches no
\* route leave the bank as it was; a channel changes only in a routed POST of
\* one of the three POST routes; a call that opens, listens on or closes the
\* socket without routing leaves the bank as it was.
C5_OnlyPostRoutesMutate ==
    [][/\ (/\ Handled'
           /\ \/ MethodOf(buffer') = STR_GET
              \/ IsNotFound(Sends')
              \/ ~MatchesRoute(MethodOf(buffer'), UriOf(buffer')))
            => (g_relay_states' = g_relay_states /\ gpio' = gpio)
       /\ (g_relay_states' # g_relay_states \/ gpio' # gpio)
            => (/\ Handled'
                /\ MethodOf(buffer') = STR_POST
                /\ \/ UriOf(buffer') \in {URI_ALL_ON, URI_ALL_OFF}
                   \/ StartsWith(UriOf(buffer'), URI_RELAY_PREFIX))
       /\ status' \in {SOCK_CLOSED, SOCK_INIT, SOCK_CLOSE_WAIT}
            => (g_relay_states' = g_relay_states /\ gpio' = gpio)]_vars

\* C5 witness: GET /foo was routed and answered 404 while relays were ON.
C5_Witness ==
    /\ Handled
    /\ MethodOf(buffer) = STR_GET
    /\ UriOf(buffer) = URI_FOO
    /\ IsNotFound(Sends)
    /\ g_relay_states[2] = 1
    /\ g_relay_states[7] = 1

\* the suffixes of /api/relay/<n> that name no channel of 1..8
OutOfRange == {<<"0">>, <<"9">>, <<"x">>, <<>>, <<"1", "0">>, <<"1", "2">>}

\* C6: a routed POST /api/relay/<n> that has its blank line and whose <n> is
\* 0, 9, a non-digit, empty or a multi-digit number such as 10 or 12 changes
\* no channel and is still answered 200 {"success":true}.
C6_OutOfRangeIgnored ==
    [][\A sfx \in OutOfRange :
        (/\ Handled'
         /\ RequestLineIs(buffer', STR_POST, RelayUri(sfx))
         /\ HasBlankLine(buffer'))
        => (g_relay_states' = g_relay_states /\ IsSuccess(Sends'))]_vars

\* C7: a routed POST /api/relay/<n> whose bytes hold no \r\n\r\n changes no
\* channel and sends nothing, and the same call still closes the connection.
C7_NoTerminatorNoReply ==
    [][(/\ Handled'
        /\ MethodOf(buffer') = STR_POST
        /\ StartsWith(UriOf(buffer'), URI_RELAY_PREFIX)
        /\ ~HasBlankLine(buffer'))
       => /\ g_relay_states' = g_relay_states
          /\ gpio' = gpio
          /\ Sends' = <<>>
          /\ ops'[Len(ops')].op = "disconnect"]_vars

\* C7 witness: POST /api/relay/3 with {"state":1} but no \r\n\r\n was routed:
\* nothing was sent, channel 3 is still OFF, the connection was closed.
C7_Witness ==
    /\ Handled
    /\ RequestLineIs(buffer, STR_POST, RelayUri(<<"3">>))
    /\ ~HasBlankLine(buffer)
    /\ Contains(buffer, STATE_1)
    /\ Sends = <<>>
    /\ ops[Len(ops)].op = "disconnect"
    /\ g_relay_states[3] = 0
    /\ g_relay_states[4] = 1

\* the last call of http_server_run made this call
Called(name) == \E i \in 1..Len(ops) : ops[i].op = name

CountOf(name) == Cardinality({i \in 1..Len(ops) : ops[i].op = name})

\* C8, as claimed: whenever a call of http_server_run observes ESTABLISHED,
\* it calls disconnect.
C8_EstablishedAlwaysCloses == status = SOCK_ESTABLISHED => Called("disconnect")

\* C8, amended: whenever a call of http_server_run observes ESTABLISHED with
\* at least one byte available, it calls disconnect, once and as its last
\* call, whatever the router did.
C8_EstablishedWithDataCloses ==
    (status = SOCK_ESTABLISHED /\ size > 0)
        => (CountOf("disconnect") = 1 /\ ops[Len(ops)].op = "disconnect")

\* C8 witness: a request that no branch of the router answers (PUT) was
\* read, and the call ended with disconnect.
C8_Witness ==
    /\ status = SOCK_ESTABLISHED
    /\ size > 0
    /\ MethodOf(buffer) = STR_PUT
    /\ Sends = <<>>
    /\ ops[Len(ops)].op = "disconnect"

\* C9: a call that observes ESTABLISHED with data makes, in this order, one
\* recv of at most MAX_HTTP_BUF bytes, one call of the router on those bytes,
\* the sends of at most one response, and one disconnect as the last call.
C9_ReceiveRouteSendClose ==
    (status = SOCK_ESTABLISHED /\ size > 0)
        => /\ Len(ops) \in {3, 5}
           /\ ops[1].op = "recv"
           /\ Len(ops[1].data) = size
           /\ size <= MAX_HTTP_BUF
           /\ ops[2].op = "process_http_request"
           /\ ops[2].data = ops[1].data
           /\ \A i \in 3..(Len(ops) - 1) : ops[i].op = "send"
           /\ ops[Len(ops)].op = "disconnect"
           /\ CountOf("recv") = 1
           /\ CountOf("process_http_request") = 1
           /\ CountOf("disconnect") = 1

\* C9 witness: MAX_HTTP_BUF bytes, the most one call reads, were read and
\* routed, a response was sent, and disconnect came last.
C9_Witness ==
    /\ status = SOCK_ESTABLISHED
    /\ size = MAX_HTTP_BUF
    /\ Len(ops) = 5
    /\ ops[1].op = "recv"
    /\ ops[3].op = "send"
    /\ ops[4].op = "send"
    /\ ops[5].op = "disconnect"

\* C10: a call that observes ESTABLISHED with no byte available, or a status
\* other than CLOSED, INIT, ESTABLISHED and CLOSE_WAIT, makes no call on the
\* socket, sends nothing and leaves the relays and the socket as they were.
C10_IdleCallsDoNothing ==
    [][(\/ status' = SOCK_ESTABLISHED /\ size' = 0
        \/ status' \notin {SOCK_CLOSED, SOCK_INIT, SOCK_ESTABLISHED,
                           SOCK_CLOSE_WAIT, NO_STATUS})
       => /\ ops' = <<>>
          /\ g_relay_states' = g_relay_states
          /\ gpio' = gpio
          /\ Sn_SR' = Sn_SR
          /\ Sn_RX' = Sn_RX
          /\ wire' = wire]_vars

\* C10 witness: a call observed ESTABLISHED with nothing to read and did
\* nothing, with relays ON.
C10_Witness ==
    /\ status = SOCK_ESTABLISHED
    /\ size = 0
    /\ ops = <<>>
    /\ Sn_SR = SOCK_ESTABLISHED
    /\ g_relay_states[6] = 1

(***************************************************************************)
(* C12                                                                     *)
(***************************************************************************)
\* C12: at most one request is routed per accepted connection: whenever a
\* call of http_server_run routes a request, the socket has been closed,
\* reopened by socket() and put to listen by listen() since the previous
\* routing, and the call leaves no byte of the connection to be routed by a
\* later call.
C12_OneRequestPerConnection ==
    [][Handled'
       => /\ conn = CONN_ARMED
          /\ CountOf("process_http_request")' = 1
          /\ Sn_SR' # SOCK_ESTABLISHED
          /\ Sn_RX' = <<>>
          /\ wire' = <<>>]_vars

\* a request for channel 5 was routed up to its blank line, the connection is
\* closing or closed and nothing of it is left to be read
C12_Witness ==
    /\ Handled
    /\ conn = CONN_ROUTED
    /\ size < MAX_HTTP_BUF
    /\ RequestLineIs(buffer, STR_POST, RelayUri(ChannelDigit(5)))
    /\ HasBlankLine(buffer)
    /\ BodyOf(buffer) = <<>>
    /\ wire = <<>>
    /\ Sn_SR \in {SOCK_CLOSED, SOCK_FIN_WAIT}

C11_RearmedWhileRunning ==
    /\ (Called("disconnect") /\ ~halted) ~> (Sn_SR = SOCK_CLOSED)
    /\ (Called("disconnect") /\ ~halted) ~> Called("socket")
    /\ (Called("disconnect") /\ ~halted) ~> Called("listen")
    /\ [][/\ Called("socket")' => status' = SOCK_CLOSED
          /\ Called("listen")' => status' = SOCK_INIT]_vars

(***************************************************************************)
(* C13, C14                                                                *)
(***************************************************************************)
\* C13: routing the same POST request a second time, right after it was
\* routed, leaves the bank as the first routing left it, for every routed
\* POST (single channel, all/on, all/off and the others) and every bank.
C13_RepeatedPostIdempotent ==
    [][(Handled' /\ StartsWith(buffer', STR_POST \o SP))
       => LET once  == Bank(g_relay_states', gpio')
              twice == process_http_request(once, buffer').bank
          IN  twice = once]_vars

\* C13 witness: POST /api/relay/4 with "state":1 was routed, channel 4 is ON
\* and so is channel 2, which an earlier request switched.
C13_Witness ==
    /\ Handled
    /\ RequestLineIs(buffer, STR_POST, RelayUri(<<"4">>))
    /\ HasBlankLine(buffer)
    /\ BodyOf(buffer) = BODY_ON
    /\ g_relay_states[4] = 1
    /\ g_relay_states[2] = 1

\* C14: a routed POST /api/relay/n, n in 1..8, that has its blank line and
\* a body with none of "state":1, "state": 1, "state":0, "state": 0 (an
\* empty body included) leaves channel n OFF, the other channels as they
\* were, and is answered 200 application/json {"success":true}.
C14_UnknownBodyMeansOff ==
    [][\A n \in Channels :
        (/\ Handled'
         /\ RequestLineIs(buffer', STR_POST, RelayUri(ChannelDigit(n)))
         /\ HasBlankLine(buffer')
         /\ ~AsksOn(BodyOf(buffer'))
         /\ ~AsksOff(BodyOf(buffer')))
        => /\ g_relay_states' = [g_relay_states EXCEPT ![n] = 0]
           /\ gpio' = [gpio EXCEPT ![n] = 0]
           /\ IsSuccess(SelectSeq(ops', IsSend))]_vars

\* C14 witness: POST /api/relay/3 with the body {"state":2} was routed and
\* answered with success; channel 3 is OFF and channel 6 is ON.
C14_Witness ==
    /\ Handled
    /\ RequestLineIs(buffer, STR_POST, RelayUri(<<"3">>))
    /\ HasBlankLine(buffer)
    /\ BodyOf(buffer) = BODY_OTHER
    /\ IsSuccess(Sends)
    /\ g_relay_states[3] = 0
    /\ g_relay_states[6] = 1

(***************************************************************************)
(* C15, C17, C18, C20                                                      *)
(***************************************************************************)
\* C15: every write of http_server_run into uint8_t buffer[MAX_HTTP_BUF]
\* stays within the indices 0..MAX_HTTP_BUF-1: the bytes recv stores, and
\* the NUL stored at index size, whatever number of bytes was available.
C15_BufferWritesInBounds ==
    /\ Len(buffer) <= MAX_HTTP_BUF
    /\ nul_at <= MAX_HTTP_BUF - 1

\* C17: a POST /api/relay/n that fits the buffer of http_server_run and
\* whose body is {"state":1} leaves channel n ON whether the call that routes it finds all its bytes in the receive
\* buffer or only those up to the blank line, the body being still on its
\* way.
C17_DeliveryIndependent ==
    [][\A n \in Channels :
        (/\ Handled'
         /\ Len(Sn_RX \o wire) < MAX_HTTP_BUF
         /\ RequestLineIs(Sn_RX \o wire, STR_POST, RelayUri(ChannelDigit(n)))
         /\ HasBlankLine(Sn_RX \o wire)
         /\ BodyOf(Sn_RX \o wire) = BODY_ON)
        => g_relay_states'[n] = 1]_vars

\* C18: a call of http_server_run that observes CLOSE_WAIT while bytes wait
\* in the receive buffer routes them before it disconnects.
C18_UnreadBytesRouted ==
    [][(status' = SOCK_CLOSE_WAIT /\ Sn_RX # <<>>)
       => (Called("process_http_request")' /\ buffer' # <<>>)]_vars

\* C20: at every moment, for each channel k, g_relay_states[k-1] is 0 or 1
\* and equals the level last driven on the pin of channel k.
C20_ArrayMirrorsPins ==
    \A k \in Channels :
        /\ g_relay_states[k] \in {0, 1}
        /\ g_relay_states[k] = gpio[k]

\* C20 witness: a routed POST /api/relay/7 has driven pin 7 high while pin 1
\* stayed low, and the array says the same.
C20_Witness ==
    /\ Handled
    /\ RequestLineIs(buffer, STR_POST, RelayUri(<<"7">>))
    /\ gpio[7] = 1
    /\ g_relay_states[7] = 1
    /\ gpio[1] = 0
    /\ g_relay_states[1] = 0

(***************************************************************************)
(* C16                                                                     *)
(***************************************************************************)
\* C16: for every request routed, sscanf writes no more than 16 bytes into
\* method and no more than 128 into uri: a method token has at most 15
\* characters and a target token at most 127, each followed by its NUL.
C16_TokensFitTheirArrays ==
    Handled =>
        /\ token_bytes(buffer).method <= METHOD_SIZE
        /\ token_bytes(buffer).uri <= URI_SIZE

(***************************************************************************)
(* C19                                                                     *)
(***************************************************************************)
\* C19: the string the router parses consists of bytes that recv stored in
\* the same call of http_server_run, and of nothing else, also when recv
\* fails or stores fewer than size bytes.
C19_RoutesOnlyReceivedBytes ==
    Handled => StartsWith(ops[1].data, buffer)

====
